---- MODULE Spec2Model ----
(***************************************************************************)
(* UserService (user.service.ts): the in-memory user store of nestjs-zero. *)
(* State: the users array and the currentId counter.  One action per       *)
(* public method; each action records the call and its outcome in `last`.  *)
(* History variables (created, removed, nRemoved) record what the calls    *)
(* returned; they are not read by the operations.                          *)
(* Spec: direct calls of the service.  SpecHttp: requests through          *)
(* UserController.  SpecAlias: a caller that writes to returned values.    *)
(* SpecScenario: the end-to-end run on a fresh store.                      *)
(***************************************************************************)
EXTENDS Integers, Sequences, FiniteSets, TLC

\* Number of create calls explored (currentId itself is unbounded in the code).
MaxCreates == 2

\* Ids create can assign within the bound.
AssignedIds == 1..MaxCreates

\* Ids used as arguments: every id create can assign, plus one never assigned.
IdArgs == 1..(MaxCreates + 1)

Names == {"John", "Jane"}

Emails == {"john@example.com", "jane@example.com"}

\* Property names of a User object.
Fields == {"id", "name", "email"}

\* The object with no own properties: {}.
EmptyObj == [f \in {} |-> 0]

\* An object with the single own property f: e.g. { id: v }.
Prop(f, v) == [g \in {f} |-> v]

\* (variant) a spread in which the first object's values win.
Spread_firstWins(a, b) ==
  [f \in (DOMAIN a) \cup (DOMAIN b) |-> IF f \in DOMAIN a THEN a[f] ELSE b[f]]

\* Object spread { ...a, ...b }: the own properties of both, b's values win.
Spread(a, b) ==
  [f \in (DOMAIN a) \cup (DOMAIN b) |-> IF f \in DOMAIN b THEN b[f] ELSE a[f]]

\* The arguments of create(): a CreateUserDto, name and email, both required
\* (create is specified on pre-validated (name, email) input).
CreateUserDto ==
  { Spread(Prop("name", n), Prop("email", e)) : n \in Names, e \in Emails }

\* The objects update() may receive at run time as updateUserDto: any subset
\* of the User properties.  The declared fields are name? and email?, but the
\* service checks nothing and main.ts installs no pipe that strips or rejects
\* other properties; the merge in update copies every own property.
OptId == {EmptyObj} \cup { Prop("id", i) : i \in AssignedIds }

OptName == {EmptyObj} \cup { Prop("name", n) : n \in Names }

OptEmail == {EmptyObj} \cup { Prop("email", e) : e \in Emails }

UpdateArgs ==
  { Spread(Spread(i, n), e) : i \in OptId, n \in OptName, e \in OptEmail }

VARIABLES users, currentId, last, created, removed, nRemoved,
          http, validationPipe, held, scn, conc

vars == <<users, currentId, last, created, removed, nRemoved,
          http, validationPipe, held, scn, conc>>

\* What a direct call of a UserService method leaves alone: the HTTP side,
\* the reference a caller keeps, the position in the end-to-end run, and the
\* requests in flight.
httpVars == <<http, validationPipe, held, scn, conc>>

\* (variant) a search that stops one element short of the end of the array.
findIndex_stopsShort(us, id) ==
  IF \E i \in 1..(Len(us) - 1) : us[i].id = id
  THEN CHOOSE i \in 1..(Len(us) - 1) :
         /\ us[i].id = id
         /\ \A j \in 1..(i - 1) : us[j].id # id
  ELSE 0

\* Array.prototype.findIndex((user) => user.id === id): the first matching
\* position (1-based here), 0 where the code gets -1.
findIndex(us, id) ==
  IF \E i \in 1..Len(us) : us[i].id = id
  THEN CHOOSE i \in 1..Len(us) :
         /\ us[i].id = id
         /\ \A j \in 1..(i - 1) : us[j].id # id
  ELSE 0

\* (variant) splice(userIndex) without a delete count: drops the tail too.
splice_toEnd(us, i) == SubSeq(us, 1, i - 1)

\* Array.prototype.splice(userIndex, 1).
splice(us, i) == [k \in 1..(Len(us) - 1) |-> IF k < i THEN us[k] ELSE us[k + 1]]

\* The result of a call: the state it leaves, and what the caller gets.
Result(us, cid, outcome, ret, list) ==
  [users |-> us, currentId |-> cid, outcome |-> outcome, ret |-> ret, list |-> list]

\* (variant) create that reads the counter without incrementing it.
create_noIncrement(us, cid, createUserDto) ==
  LET newUser == Spread(Prop("id", cid), createUserDto)
  IN  Result(Append(us, newUser), cid, "ok", newUser, <<>>)

\* (variant) create that derives the id from the array length.
create_idFromLength(us, cid, createUserDto) ==
  LET newUser == Spread(Prop("id", Len(us) + 1), createUserDto)
  IN  Result(Append(us, newUser), cid + 1, "ok", newUser, <<>>)

\* (variant) create that inserts with unshift instead of push.
create_unshift(us, cid, createUserDto) ==
  LET newUser == Spread(Prop("id", cid), createUserDto)
  IN  Result(<<newUser>> \o us, cid + 1, "ok", newUser, <<>>)

create(us, cid, createUserDto) ==
  LET newUser == Spread(Prop("id", cid), createUserDto)
  IN  Result(Append(us, newUser), cid + 1, "ok", newUser, <<>>)

\* (variant) findAll that reverses the array in place before returning it.
findAll_reverse(us, cid) ==
  LET rev == [k \in 1..Len(us) |-> us[Len(us) + 1 - k]]
  IN  Result(rev, cid, "ok", EmptyObj, rev)

findAll(us, cid) == Result(us, cid, "ok", EmptyObj, us)

findOne(us, cid, id) ==
  LET i == findIndex(us, id)
  IN  IF i = 0
      THEN Result(us, cid, "NotFound", EmptyObj, <<>>)
      ELSE Result(us, cid, "ok", us[i], <<>>)

\* (variant) update that returns the merged object without storing it.
update_noWriteBack(us, cid, id, updateUserDto) ==
  LET userIndex == findIndex(us, id)
  IN  IF userIndex = 0
      THEN Result(us, cid, "NotFound", EmptyObj, <<>>)
      ELSE Result(us, cid, "ok", Spread(us[userIndex], updateUserDto), <<>>)

\* (variant) update that takes the element out and pushes the merged object.
update_writeAtEnd(us, cid, id, updateUserDto) ==
  LET userIndex == findIndex(us, id)
  IN  IF userIndex = 0
      THEN Result(us, cid, "NotFound", EmptyObj, <<>>)
      ELSE LET updatedUser == Spread(us[userIndex], updateUserDto)
           IN  Result(Append(splice(us, userIndex), updatedUser), cid, "ok",
                      updatedUser, <<>>)

update(us, cid, id, updateUserDto) ==
  LET userIndex == findIndex(us, id)
  IN  IF userIndex = 0
      THEN Result(us, cid, "NotFound", EmptyObj, <<>>)
      ELSE LET updatedUser == Spread(us[userIndex], updateUserDto)
           IN  Result([us EXCEPT ![userIndex] = updatedUser], cid, "ok",
                      updatedUser, <<>>)

\* (variant) remove that splices before it checks the index: splice(-1, 1)
\* takes the last element out.
remove_spliceBeforeCheck(us, cid, id) ==
  LET userIndex == findIndex(us, id)
  IN  IF userIndex = 0
      THEN Result(SubSeq(us, 1, Len(us) - 1), cid, "NotFound", EmptyObj, <<>>)
      ELSE Result(splice(us, userIndex), cid, "ok", EmptyObj, <<>>)

remove(us, cid, id) ==
  LET userIndex == findIndex(us, id)
  IN  IF userIndex = 0
      THEN Result(us, cid, "NotFound", EmptyObj, <<>>)
      ELSE Result(splice(us, userIndex), cid, "ok", EmptyObj, <<>>)

\* The record of a call: operation, arguments, outcome and returned value.
Call(op, id, dto, r) ==
  [op |-> op, id |-> id, dto |-> dto, outcome |-> r.outcome, ret |-> r.ret,
   list |-> r.list]

\* No UserService call made.
NoCall ==
  [op |-> "none", id |-> 0, dto |-> EmptyObj, outcome |-> "ok",
   ret |-> EmptyObj, list |-> <<>>]

\* No request handled yet.
NoRequest ==
  [method |-> "none", seg |-> "", body |-> EmptyObj, status |-> 0,
   invoked |-> 0, call |-> NoCall]

\* The caller keeps no reference to a returned value.
NoRef == [kind |-> "none", at |-> 0, obj |-> EmptyObj, by |-> "none"]

\* No request in flight; init is the store the requests find.
NoConc == [init |-> [users |-> <<>>, currentId |-> 1], reqs |-> <<>>]

\* No end-to-end run in progress.
NoScenario == [pc |-> 0, a |-> EmptyObj, b |-> EmptyObj, n |-> ""]

Init ==
  /\ users = <<>>
  /\ currentId = 1
  /\ last = [op |-> "new", id |-> 0, dto |-> EmptyObj, outcome |-> "ok",
             ret |-> EmptyObj, list |-> <<>>]
  /\ created = <<>>
  /\ removed = {}
  /\ nRemoved = 0
  /\ http = NoRequest
  /\ validationPipe = FALSE
  /\ held = NoRef
  /\ conc = NoConc
  /\ scn = NoScenario

Create ==
  /\ Len(created) < MaxCreates
  /\ \E dto \in CreateUserDto :
       LET r == create(users, currentId, dto)
       IN  /\ users' = r.users
           /\ currentId' = r.currentId
           /\ last' = Call("create", 0, dto, r)
           /\ created' = Append(created, r.ret.id)
  /\ UNCHANGED <<removed, nRemoved>>
  /\ UNCHANGED httpVars

FindAll ==
  /\ LET r == findAll(users, currentId)
     IN  /\ users' = r.users
         /\ currentId' = r.currentId
         /\ last' = Call("findAll", 0, EmptyObj, r)
  /\ UNCHANGED <<created, removed, nRemoved>>
  /\ UNCHANGED httpVars

FindOne ==
  /\ \E id \in IdArgs :
       LET r == findOne(users, currentId, id)
       IN  /\ users' = r.users
           /\ currentId' = r.currentId
           /\ last' = Call("findOne", id, EmptyObj, r)
  /\ UNCHANGED <<created, removed, nRemoved>>
  /\ UNCHANGED httpVars

Update ==
  /\ \E id \in IdArgs, dto \in UpdateArgs :
       LET r == update(users, currentId, id, dto)
       IN  /\ users' = r.users
           /\ currentId' = r.currentId
           /\ last' = Call("update", id, dto, r)
  /\ UNCHANGED <<created, removed, nRemoved>>
  /\ UNCHANGED httpVars

Remove ==
  /\ \E id \in IdArgs :
       LET r == remove(users, currentId, id)
       IN  /\ users' = r.users
           /\ currentId' = r.currentId
           /\ last' = Call("remove", id, EmptyObj, r)
           /\ removed' = IF r.outcome = "ok" THEN removed \cup {id} ELSE removed
           /\ nRemoved' = IF r.outcome = "ok" THEN nRemoved + 1 ELSE nRemoved
  /\ UNCHANGED created
  /\ UNCHANGED httpVars

Next == Create \/ FindAll \/ FindOne \/ Update \/ Remove

Spec == Init /\ [][Next]_vars

TypeOK ==
  /\ currentId \in 1..(MaxCreates + 1)
  /\ Len(users) <= MaxCreates
  /\ \A i \in 1..Len(users) : DOMAIN users[i] = Fields
(***************************************************************************)
(* UserController behind the framework's pipes (user.controller.ts,        *)
(* main.ts): one action per route.  validationPipe tells which bootstrap   *)
(* is running: the one that installs the global ValidationPipe or the one  *)
(* that does not.                                                          *)
(***************************************************************************)

\* The :id path segments tried: the decimal form of every id argument, and
\* a segment that is not an integer.
Segs == { ToString(i) : i \in IdArgs } \cup {"abc"}

\* Bodies sent to POST /user: valid ones, a short name, a malformed email,
\* and a body without email.
PostBodies ==
  { Spread(Prop("name", "John"), Prop("email", "john@example.com")),
    Spread(Prop("name", "Jane"), Prop("email", "jane@example.com")),
    Spread(Prop("name", "J"), Prop("email", "john@example.com")),
    Spread(Prop("name", "John"), Prop("email", "not-an-email")),
    Prop("name", "John") }

\* Bodies sent to PATCH /user/:id: empty, one valid field, one invalid field,
\* and a body with a property that is not a field of the DTO.
PatchBodies ==
  { EmptyObj,
    Prop("name", "Jane"),
    Prop("email", "jane@example.com"),
    Prop("name", "J"),
    Prop("email", "not-an-email"),
    Prop("id", 2) }

\* @Length(2, 50) on name (IsString holds of every value used here, and
\* IsNotEmpty is implied by the minimum length).
Length(v, min, max) == Len(v) >= min /\ Len(v) <= max

\* @IsEmail(): the well-formed addresses among the values used.
IsEmail(v) == v \in Emails

\* class-validator on CreateUserDto with whitelist and forbidNonWhitelisted:
\* no property outside the DTO, name and email present and valid.
validateCreateUserDto(body) ==
  /\ DOMAIN body \subseteq {"name", "email"}
  /\ "name" \in DOMAIN body /\ Length(body.name, 2, 50)
  /\ "email" \in DOMAIN body /\ IsEmail(body.email)

\* class-validator on UpdateUserDto (PartialType(CreateUserDto)): the same
\* rules, each skipped when the property is missing (IsOptional).
validateUpdateUserDto(body) ==
  /\ DOMAIN body \subseteq {"name", "email"}
  /\ "name" \in DOMAIN body => Length(body.name, 2, 50)
  /\ "email" \in DOMAIN body => IsEmail(body.email)

\* The global ValidationPipe on a @Body() parameter: rejects the request when
\* installed and the body fails the DTO rules.
bodyRejected(pipe, valid) == pipe /\ ~ valid

\* (variant) a check that lets every segment through.
isNumeric_any(seg) == TRUE

\* ParseIntPipe accepts a segment that is the decimal form of an integer.
isNumeric(seg) == \E i \in IdArgs : ToString(i) = seg

\* ParseIntPipe's transform, parseInt(value, 10): the integer written by the
\* segment; for any other segment NaN, which equals no id and is written 0
\* here (create never assigns 0).
ParseIntPipe(seg) ==
  IF \E i \in IdArgs : ToString(i) = seg
  THEN CHOOSE i \in IdArgs : ToString(i) = seg
  ELSE 0

\* (variant) remove without its @HttpCode decorator.
successStatus_noHttpCode(method) ==
  CASE method = "POST" -> 201
    [] OTHER -> 200

\* HTTP status of a handler that returned normally: 201 for @Post, 204 under
\* @HttpCode(HttpStatus.NO_CONTENT), 200 otherwise.
successStatus(method) ==
  CASE method = "POST" -> 201
    [] method = "DELETE" -> 204
    [] OTHER -> 200

\* (variant) the failure answered as a generic server error.
statusOf_generic(method, outcome) ==
  IF outcome = "NotFound" THEN 500 ELSE successStatus(method)

\* HTTP status of a handler call: NotFoundException propagates out of the
\* handler unchanged and is answered with its own status, 404.
statusOf(method, outcome) ==
  IF outcome = "NotFound" THEN 404 ELSE successStatus(method)

\* The record of a request and its answer; invoked counts the UserService
\* calls made for it and call is the last of them with what it returned,
\* which the handler returns as the response payload.
Request(method, seg, body, status, invoked, call) ==
  [method |-> method, seg |-> seg, body |-> body, status |-> status,
   invoked |-> invoked, call |-> call]

\* A request answered 400 by a pipe: the handler does not run.
Rejected(method, seg, body) ==
  /\ http' = Request(method, seg, body, 400, 0, NoCall)
  /\ UNCHANGED <<users, currentId>>

\* (variant) a handler that calls the service again when it failed.
Handled_retry(method, seg, body, op, id, r) ==
  /\ users' = r.users
  /\ currentId' = r.currentId
  /\ http' = Request(method, seg, body, statusOf(method, r.outcome),
                     IF r.outcome = "NotFound" THEN 2 ELSE 1,
                     Call(op, id, body, r))

\* The handler ran: r is the result of its one UserService call.
Handled(method, seg, body, op, id, r) ==
  /\ users' = r.users
  /\ currentId' = r.currentId
  /\ http' = Request(method, seg, body, statusOf(method, r.outcome), 1,
                     Call(op, id, body, r))

InitHttp ==
  /\ users = <<>>
  /\ currentId = 1
  /\ last = [op |-> "new", id |-> 0, dto |-> EmptyObj, outcome |-> "ok",
             ret |-> EmptyObj, list |-> <<>>]
  /\ created = <<>>
  /\ removed = {}
  /\ nRemoved = 0
  /\ http = NoRequest
  /\ validationPipe \in BOOLEAN
  /\ held = NoRef
  /\ conc = NoConc
  /\ scn = NoScenario

\* What a request leaves alone: the record and history of direct calls, and
\* the bootstrap that is running.
directVars ==
  <<last, created, removed, nRemoved, validationPipe, held, scn, conc>>

\* POST /user
HttpCreate ==
  /\ currentId <= MaxCreates
  /\ \E body \in PostBodies :
       IF bodyRejected(validationPipe, validateCreateUserDto(body))
       THEN Rejected("POST", "", body)
       ELSE Handled("POST", "", body, "create", 0,
                    create(users, currentId, body))
  /\ UNCHANGED directVars

\* GET /user
HttpFindAll ==
  /\ Handled("GET", "", EmptyObj, "findAll", 0, findAll(users, currentId))
  /\ UNCHANGED directVars

\* GET /user/:id
HttpFindOne ==
  /\ \E seg \in Segs :
       IF ~ isNumeric(seg)
       THEN Rejected("GET", seg, EmptyObj)
       ELSE Handled("GET", seg, EmptyObj, "findOne", ParseIntPipe(seg),
                    findOne(users, currentId, ParseIntPipe(seg)))
  /\ UNCHANGED directVars

\* PATCH /user/:id
HttpUpdate ==
  /\ \E seg \in Segs, body \in PatchBodies :
       IF \/ ~ isNumeric(seg)
          \/ bodyRejected(validationPipe, validateUpdateUserDto(body))
       THEN Rejected("PATCH", seg, body)
       ELSE Handled("PATCH", seg, body, "update", ParseIntPipe(seg),
                    update(users, currentId, ParseIntPipe(seg), body))
  /\ UNCHANGED directVars

\* DELETE /user/:id
HttpRemove ==
  /\ \E seg \in Segs :
       IF ~ isNumeric(seg)
       THEN Rejected("DELETE", seg, EmptyObj)
       ELSE Handled("DELETE", seg, EmptyObj, "remove", ParseIntPipe(seg),
                    remove(users, currentId, ParseIntPipe(seg)))
  /\ UNCHANGED directVars

NextHttp == HttpCreate \/ HttpFindAll \/ HttpFindOne \/ HttpUpdate \/ HttpRemove

SpecHttp == InitHttp /\ [][NextHttp]_vars

(***************************************************************************)
(* The end-to-end run of the service on a fresh store: create, create,     *)
(* findAll, findOne(1), update(1, {name}), remove(2), findOne(2), for any   *)
(* two CreateUserDto values a, b and any new name n.                       *)
(***************************************************************************)

ScenarioNames == {"John Doe", "Jane", "Jonathan"}

ScenarioDtos ==
  { Spread(Prop("name", n), Prop("email", e)) : n \in ScenarioNames, e \in Emails }

\* What a step of the run leaves alone.
scnFrame == <<created, removed, nRemoved, http, validationPipe, held, conc>>

InitScenario ==
  /\ users = <<>>
  /\ currentId = 1
  /\ last = [op |-> "new", id |-> 0, dto |-> EmptyObj, outcome |-> "ok",
             ret |-> EmptyObj, list |-> <<>>]
  /\ created = <<>>
  /\ removed = {}
  /\ nRemoved = 0
  /\ http = NoRequest
  /\ validationPipe = FALSE
  /\ held = NoRef
  /\ conc = NoConc
  /\ scn \in { [pc |-> 0, a |-> a, b |-> b, n |-> n] :
                a \in ScenarioDtos, b \in ScenarioDtos, n \in ScenarioNames }

\* One step of the run: the call op(id, dto) made at position pc.
ScnCall(pc, op, id, dto, r) ==
  /\ scn.pc = pc
  /\ users' = r.users
  /\ currentId' = r.currentId
  /\ last' = Call(op, id, dto, r)
  /\ scn' = [scn EXCEPT !.pc = pc + 1]
  /\ UNCHANGED scnFrame

ScnCreateFirst ==
  ScnCall(0, "create", 0, scn.a, create(users, currentId, scn.a))

ScnCreateSecond ==
  ScnCall(1, "create", 0, scn.b, create(users, currentId, scn.b))

ScnFindAll ==
  ScnCall(2, "findAll", 0, EmptyObj, findAll(users, currentId))

ScnFindOne ==
  ScnCall(3, "findOne", 1, EmptyObj, findOne(users, currentId, 1))

ScnUpdate ==
  ScnCall(4, "update", 1, Prop("name", scn.n),
          update(users, currentId, 1, Prop("name", scn.n)))

ScnRemove ==
  ScnCall(5, "remove", 2, EmptyObj, remove(users, currentId, 2))

ScnFindOneRemoved ==
  ScnCall(6, "findOne", 2, EmptyObj, findOne(users, currentId, 2))

NextScenario ==
  \/ ScnCreateFirst \/ ScnCreateSecond \/ ScnFindAll \/ ScnFindOne
  \/ ScnUpdate \/ ScnRemove \/ ScnFindOneRemoved

SpecScenario == InitScenario /\ [][NextScenario]_vars

(***************************************************************************)
(* A caller that keeps the value a UserService method returned and writes  *)
(* to it.  held.at is the position in users of the object the caller's     *)
(* reference points to (0: the object is not in the array), held.obj is    *)
(* that object as the caller sees it, held.by the step that last touched   *)
(* the reference.                                                          *)
(***************************************************************************)

\* (variant) create returning a copy of the object it pushed.
createdRef_copy(us) == 0

\* create returns newUser, the very object it pushed: the last element.
createdRef(us) == Len(us)

\* findOne returns the element Array.find found, not a copy of it.
foundRef(us, id) == findIndex(us, id)

\* update returns updatedUser, the object it has just stored at userIndex.
updatedRef(us, id) == findIndex(us, id)

\* The reference to a record, as kept by the caller.
Ref(at, obj, by) == [kind |-> "record", at |-> at, obj |-> obj, by |-> by]

\* findAll returns this.users, the array itself; no method ever reassigns
\* this.users, so the reference stays the store's array.
ListRef(by) == [kind |-> "list", at |-> 0, obj |-> EmptyObj, by |-> by]

\* The reference after a call whose result the caller did not keep, where
\* the element at position gone (0: none) left the array.
Stale(h, gone) ==
  CASE h.kind = "record" /\ gone > 0 /\ h.at = gone -> Ref(0, h.obj, "stale")
    [] h.kind = "record" /\ gone > 0 /\ h.at > gone -> Ref(h.at - 1, h.obj, "stale")
    [] h.kind = "record" -> Ref(h.at, h.obj, "stale")
    [] h.kind = "list" -> ListRef("stale")
    [] OTHER -> h

\* What the caller's steps leave alone.
aliasFrame ==
  <<last, created, removed, nRemoved, http, validationPipe, scn, conc>>

AliasCreate ==
  /\ currentId <= MaxCreates
  /\ \E dto \in CreateUserDto :
       LET r == create(users, currentId, dto)
       IN  /\ users' = r.users
           /\ currentId' = r.currentId
           /\ held' = Ref(createdRef(r.users), r.ret, "create")
  /\ UNCHANGED aliasFrame

AliasFindAll ==
  /\ held' = ListRef("findAll")
  /\ UNCHANGED <<users, currentId>>
  /\ UNCHANGED aliasFrame

AliasFindOne ==
  /\ \E id \in IdArgs :
       LET r == findOne(users, currentId, id)
       IN  /\ held' = IF r.outcome = "ok"
                      THEN Ref(foundRef(users, id), r.ret, "findOne")
                      ELSE Stale(held, 0)
  /\ UNCHANGED <<users, currentId>>
  /\ UNCHANGED aliasFrame

AliasUpdate ==
  /\ \E id \in IdArgs, dto \in UpdateArgs :
       LET r == update(users, currentId, id, dto)
       IN  /\ users' = r.users
           /\ currentId' = r.currentId
           /\ held' = IF r.outcome = "ok"
                      THEN Ref(updatedRef(users, id), r.ret, "update")
                      ELSE Stale(held, 0)
  /\ UNCHANGED aliasFrame

AliasRemove ==
  /\ \E id \in IdArgs :
       LET r == remove(users, currentId, id)
       IN  /\ users' = r.users
           /\ currentId' = r.currentId
           /\ held' = Stale(held, findIndex(users, id))
  /\ UNCHANGED aliasFrame

\* The caller assigns held.name = v: a write to the object itself, which is
\* the stored element when the object is in the array.
CallerWrites ==
  /\ held.kind = "record"
  /\ \E v \in Names :
       /\ held' = Ref(held.at, [held.obj EXCEPT !["name"] = v], "write")
       /\ users' = IF held.at > 0
                   THEN [users EXCEPT ![held.at] = [@ EXCEPT !["name"] = v]]
                   ELSE users
  /\ UNCHANGED currentId
  /\ UNCHANGED aliasFrame

\* The caller calls pop() on the array findAll returned: the store's array.
CallerPops ==
  /\ held.kind = "list"
  /\ Len(users) > 0
  /\ users' = SubSeq(users, 1, Len(users) - 1)
  /\ held' = ListRef("pop")
  /\ UNCHANGED currentId
  /\ UNCHANGED aliasFrame

NextAlias ==
  \/ AliasCreate \/ AliasFindAll \/ AliasFindOne \/ AliasUpdate \/ AliasRemove
  \/ CallerWrites \/ CallerPops

SpecAlias == Init /\ [][NextAlias]_vars

(***************************************************************************)
(* Direct calls of update with properties that are present but unset: an   *)
(* UpdateUserDto whose name or email is undefined.                         *)
(***************************************************************************)

\* The JavaScript value undefined.
undefined == "undefined"

\* updateUserDto objects whose name and email are each missing, undefined, or
\* set (name?: string and email?: string admit all three).
UnsetArgs ==
  { Spread(n, e) : n \in OptName \cup {Prop("name", undefined)},
                   e \in OptEmail \cup {Prop("email", undefined)} }

UpdateUnset ==
  /\ \E id \in IdArgs, dto \in UnsetArgs :
       LET r == update(users, currentId, id, dto)
       IN  /\ users' = r.users
           /\ currentId' = r.currentId
           /\ last' = Call("update", id, dto, r)
  /\ UNCHANGED <<created, removed, nRemoved>>
  /\ UNCHANGED httpVars

NextUnset == Create \/ FindAll \/ FindOne \/ UpdateUnset \/ Remove

SpecUnset == Init /\ [][NextUnset]_vars

(***************************************************************************)
(* Requests in flight at the same time.  Node runs one handler at a time   *)
(* and a handler gives up control only at an await or a callback; each     *)
(* UserService method is split here into what it reads and what it writes, *)
(* with suspends(op) telling whether control can be lost in between.       *)
(***************************************************************************)

\* Number of requests in flight together.
MaxClients == 2

\* (variant) methods that await between reading and writing.
suspends_await(op) == op \in {"create", "update"}

\* No UserService method (and no handler of UserController) is async or
\* awaits or passes a callback: control is never given up inside a call.
suspends(op) == FALSE

\* The requests that may arrive: two creates, two updates of record 1 on
\* different fields, an update of record 1 whose argument carries an id, and
\* the removal of record 1.
ConcRequests ==
  { [op |-> "create", id |-> 0,
     dto |-> Spread(Prop("name", "John"), Prop("email", "john@example.com"))],
    [op |-> "create", id |-> 0,
     dto |-> Spread(Prop("name", "Jane"), Prop("email", "jane@example.com"))],
    [op |-> "update", id |-> 1, dto |-> Prop("name", "Jane")],
    [op |-> "update", id |-> 1, dto |-> Prop("email", "jane@example.com")],
    [op |-> "update", id |-> 1, dto |-> Prop("id", 2)],
    [op |-> "remove", id |-> 1, dto |-> EmptyObj] }

\* A request that has arrived and not run yet, with the locals of its call.
Pending(q) ==
  [op |-> q.op, id |-> q.id, dto |-> q.dto, pc |-> "pending",
   cid |-> 0, idx |-> 0, rec |-> EmptyObj, outcome |-> "none", ret |-> EmptyObj]

\* What the method reads: create the counter, update and remove the index of
\* the record and (update) the record at it.
ReadPhase(q, us, cid) ==
  IF q.op = "create"
  THEN [q EXCEPT !.cid = cid]
  ELSE LET userIndex == findIndex(us, q.id)
       IN  [q EXCEPT !.idx = userIndex,
                     !.rec = IF userIndex = 0 THEN EmptyObj ELSE us[userIndex]]

\* The method throws NotFoundException right after its search.
Throws(q) == q.op \in {"update", "remove"} /\ q.idx = 0

\* What the method writes, from what it has read.
WritePhase(q, us, cid) ==
  CASE q.op = "create" ->
         LET newUser == Spread(Prop("id", q.cid), q.dto)
         IN  Result(Append(us, newUser), q.cid + 1, "ok", newUser, <<>>)
    [] q.op = "update" ->
         LET updatedUser == Spread(q.rec, q.dto)
         IN  Result(IF q.idx \in 1..Len(us)
                    THEN [us EXCEPT ![q.idx] = updatedUser]
                    ELSE Append(us, updatedUser),
                    cid, "ok", updatedUser, <<>>)
    [] q.op = "remove" ->
         Result(IF q.idx \in 1..Len(us) THEN splice(us, q.idx) ELSE us,
                cid, "ok", EmptyObj, <<>>)

\* What a step of a request leaves alone.
concFrame ==
  <<last, created, removed, nRemoved, http, validationPipe, held, scn>>

\* The stores the requests may find: the fresh one, and the one after a create.
InitConc ==
  /\ \E fresh \in BOOLEAN :
       LET r == create(<<>>, 1, Spread(Prop("name", "John"),
                                        Prop("email", "john@example.com")))
       IN  /\ users = IF fresh THEN <<>> ELSE r.users
           /\ currentId = IF fresh THEN 1 ELSE r.currentId
           /\ conc = [init |-> [users |-> IF fresh THEN <<>> ELSE r.users,
                                currentId |-> IF fresh THEN 1 ELSE r.currentId],
                      reqs |-> <<>>]
  /\ last = [op |-> "new", id |-> 0, dto |-> EmptyObj, outcome |-> "ok",
             ret |-> EmptyObj, list |-> <<>>]
  /\ created = <<>>
  /\ removed = {}
  /\ nRemoved = 0
  /\ http = NoRequest
  /\ validationPipe = FALSE
  /\ held = NoRef
  /\ scn = NoScenario

\* A request arrives while others may still be waiting.
Arrive ==
  /\ Len(conc.reqs) < MaxClients
  /\ \E q \in ConcRequests :
       conc' = [conc EXCEPT !.reqs = Append(@, Pending(q))]
  /\ UNCHANGED <<users, currentId>>
  /\ UNCHANGED concFrame

\* The event loop runs the call of one request until it returns, throws, or
\* gives up control.
RunHandler ==
  /\ \E k \in 1..Len(conc.reqs) :
       LET q0 == conc.reqs[k]
           q == IF q0.pc = "pending" THEN ReadPhase(q0, users, currentId) ELSE q0
           r == WritePhase(q, users, currentId)
       IN  /\ q0.pc \in {"pending", "mid"}
           /\ IF Throws(q)
              THEN /\ conc' = [conc EXCEPT !.reqs[k] =
                                 [q EXCEPT !.pc = "done", !.outcome = "NotFound"]]
                   /\ UNCHANGED <<users, currentId>>
              ELSE IF q0.pc = "pending" /\ suspends(q.op)
              THEN /\ conc' = [conc EXCEPT !.reqs[k] = [q EXCEPT !.pc = "mid"]]
                   /\ UNCHANGED <<users, currentId>>
              ELSE /\ conc' = [conc EXCEPT !.reqs[k] =
                                 [q EXCEPT !.pc = "done", !.outcome = r.outcome,
                                           !.ret = r.ret]]
                   /\ users' = r.users
                   /\ currentId' = r.currentId
  /\ UNCHANGED concFrame

NextConc == Arrive \/ RunHandler

SpecConc == InitConc /\ [][NextConc]_vars

(***************************************************************************)
(* Properties                                                              *)
(***************************************************************************)

\* The ids of a sequence of records, in order.
Ids(us) == [i \in 1..Len(us) |-> us[i].id]

Range(f) == { f[x] : x \in DOMAIN f }

\* C1: after any sequence of create, update and remove calls, no two records
\* of the users collection have the same id.
C1_UniqueIds ==
  \A i, j \in 1..Len(users) : i # j => users[i].id # users[j].id

\* C2: the id returned by each create is strictly greater than the id
\* returned by every earlier create, whether or not those records were
\* removed since.
C2_CreateIdsIncrease ==
  /\ \A i, j \in 1..Len(created) : i < j => created[i] < created[j]
  /\ last.op = "create" => last.ret.id = created[Len(created)]

\* C2 witness: a create made after an earlier record was removed.
C2_Witness ==
  /\ last.op = "create"
  /\ Len(created) = 2
  /\ nRemoved = 1

\* C3: ids start at 1 and are never reused: the first create on a fresh store
\* returns 1, and no create returns an id an earlier create returned, even
\* when the record with that id was removed in between.
C3_IdsFromOneNeverReused ==
  [][created' # created =>
       /\ created' = Append(created, last'.ret.id)
       /\ last'.ret.id \notin Range(created)
       /\ (created = <<>> => last'.ret.id = 1)]_vars

\* C3 witness: the second create, made when the record with id 1 is gone.
C3_Witness ==
  /\ last.op = "create"
  /\ 1 \in removed
  /\ users = <<last.ret>>
  /\ last.ret.id = 2

\* C4: a successful update(id, partialFields) leaves the id of the record
\* unchanged, in the store and in the returned record, whatever partialFields
\* holds.
C4_IdImmutable ==
  [][(last'.op = "update" /\ last'.outcome = "ok") =>
       LET i == findIndex(users, last'.id)
       IN  /\ users'[i].id = users[i].id
           /\ last'.ret.id = users[i].id]_vars

\* C5: a successful update(id, partialFields) sets exactly the fields present
\* in partialFields and leaves the absent ones at their previous value; the
\* returned record is the stored one.
C5_UpdateMergesPresentFields ==
  [][(last'.op = "update" /\ last'.outcome = "ok") =>
       LET i == findIndex(users, last'.id)
       IN  /\ i > 0
           /\ DOMAIN users'[i] = Fields
           /\ \A f \in Fields :
                users'[i][f] = IF f \in DOMAIN last'.dto THEN last'.dto[f]
                               ELSE users[i][f]
           /\ last'.ret = users'[i]]_vars

\* C5 witness: update(id, {name: X}) has succeeded on a record whose email
\* belongs to the other person, so the name was changed and the email kept.
C5_Witness ==
  /\ last.op = "update"
  /\ last.outcome = "ok"
  /\ DOMAIN last.dto = {"name"}
  /\ last.ret.name = "Jane"
  /\ last.ret.email = "john@example.com"
  /\ last.ret.id = last.id

\* C6: findOne(id) right after the create that returned that id yields a
\* record equal to the one create returned.
C6_FindOneAfterCreate ==
  last.op = "create" =>
    LET r == findOne(users, currentId, last.ret.id)
    IN  r.outcome = "ok" /\ r.ret = last.ret

\* C7: findOne(id) right after a successful remove(id) fails with NotFound.
C7_FindOneAfterRemove ==
  (last.op = "remove" /\ last.outcome = "ok") =>
    findOne(users, currentId, last.id).outcome = "NotFound"

\* C8: remove is not idempotent: a second remove(id) right after a
\* successful remove(id) fails with NotFound.
C8_SecondRemoveFails ==
  (last.op = "remove" /\ last.outcome = "ok") =>
    remove(users, currentId, last.id).outcome = "NotFound"

\* C9: the length of findAll's result is the number of create calls minus the
\* number of successful remove calls; update and failing calls leave it alone.
C9_ListLength ==
  Len(findAll(users, currentId).list) = Len(created) - nRemoved

\* C9 witness: findAll called after two creates and one successful remove,
\* with a failing lookup possible on the removed id.
C9_Witness ==
  /\ last.op = "findAll"
  /\ Len(created) = 2
  /\ nRemoved = 1
  /\ Len(last.list) = 1

\* C10: findAll returns exactly the records created and not removed, each
\* once, in the order of their creation.
C10_ListIsLiveInInsertionOrder ==
  Ids(findAll(users, currentId).list) =
    SelectSeq(created, LAMBDA id : id \notin removed)
\* C11: a successful update(id, partialFields) writes the merged record back
\* in place: the record with that id is at the same position of findAll's
\* result before and after the call, and the collection keeps its length.
C11_UpdateKeepsPosition ==
  [][(last'.op = "update" /\ last'.outcome = "ok") =>
       /\ findIndex(findAll(users', currentId').list, last'.id)
            = findIndex(findAll(users, currentId).list, last'.id)
       /\ Len(users') = Len(users)]_vars

\* C12: findOne(id), update(id, _) and remove(id) fail with NotFound exactly
\* when no record of the collection has that id, and succeed otherwise; the
\* failure reaches the caller as the outcome of the call.
C12_NotFoundIffAbsent ==
  [][last'.op \in {"findOne", "update", "remove"} =>
       (last'.outcome = "NotFound"
          <=> ~ \E i \in 1..Len(users) : users[i].id = last'.id)]_vars

\* C12 witness: findOne on the id that is never assigned has failed on a
\* non-empty store.
C12_Witness ==
  /\ last.op = "findOne"
  /\ last.id = MaxCreates + 1
  /\ last.outcome = "NotFound"
  /\ Len(users) = MaxCreates

\* C19: create(name, email) never fails; it returns a record with an id and
\* exactly the given name and email, appends that record (and nothing else)
\* to the collection, and advances the id counter by exactly one.
C19_CreateEffect ==
  [][created' # created =>
       /\ last'.op = "create"
       /\ last'.outcome = "ok"
       /\ DOMAIN last'.ret = Fields
       /\ last'.ret.name = last'.dto.name
       /\ last'.ret.email = last'.dto.email
       /\ users' = Append(users, last'.ret)
       /\ currentId' = currentId + 1]_vars

\* C19 witness: a create on a store that already holds a record.
C19_Witness ==
  /\ last.op = "create"
  /\ last.outcome = "ok"
  /\ Len(users) = 2
  /\ users[2] = last.ret
  /\ currentId = 3

\* C20: findAll and findOne are read-only: succeeding or failing, they leave
\* the collection (records, fields, order) and the id counter as they were.
C20_ReadsAreReadOnly ==
  [][last'.op \in {"findAll", "findOne"} =>
       users' = users /\ currentId' = currentId]_vars

\* C20 witness: a failed findOne and a store with two records in it.
C20_Witness ==
  /\ last.op = "findOne"
  /\ last.outcome = "NotFound"
  /\ Len(users) = 2
  /\ users[1].name # users[2].name
\* Some record of us has the id written by the path segment seg.
Present(us, seg) == \E i \in 1..Len(us) : us[i].id = ParseIntPipe(seg)

\* C14: GET /user/:id, PATCH /user/:id and DELETE /user/:id with an integer
\* id that no record has (and, for PATCH, a body the pipes let through) are
\* answered 404, with no payload and no other status.
C14_AbsentIdIs404 ==
  [][( /\ http'.method \in {"GET", "PATCH", "DELETE"}
       /\ isNumeric(http'.seg)
       /\ ~ Present(users, http'.seg)
       /\ http'.method = "PATCH" =>
            ~ bodyRejected(validationPipe, validateUpdateUserDto(http'.body)) )
     => /\ http'.status = 404
        /\ http'.call.outcome = "NotFound"
        /\ http'.call.ret = EmptyObj
        /\ http'.call.list = <<>>]_vars

\* C14 witness: a PATCH on the never-assigned id answered 404 while the
\* store holds a record.
C14_Witness ==
  /\ http.method = "PATCH"
  /\ http.seg = ToString(MaxCreates + 1)
  /\ http.status = 404
  /\ Len(users) >= 1

\* C15: DELETE /user/:id for an id present in the store is answered 204 with
\* no body and removes one record with that id; 204 is given only when a
\* record was removed.
C15_Delete204 ==
  [][http'.method = "DELETE" =>
       LET i == findIndex(users, ParseIntPipe(http'.seg))
       IN  /\ (isNumeric(http'.seg) /\ Present(users, http'.seg)) =>
                /\ http'.status = 204
                /\ http'.call.ret = EmptyObj /\ http'.call.list = <<>>
                /\ Len(users') = Len(users) - 1
                /\ \A k \in 1..Len(users') :
                     users'[k] = IF k < i THEN users[k] ELSE users[k + 1]
           /\ http'.status = 204 =>
                /\ isNumeric(http'.seg) /\ Present(users, http'.seg)
                /\ http'.call.outcome = "ok"
                /\ Len(users') = Len(users) - 1]_vars

\* C15 witness: DELETE /user/1 answered 204, leaving the other record.
C15_Witness ==
  /\ http.method = "DELETE"
  /\ http.seg = "1"
  /\ http.status = 204
  /\ Len(users) = 1
  /\ users[1].id = 2

\* C16: a POST /user or PATCH /user/:id whose body fails the DTO rules is
\* answered 400 and does not reach the store: no UserService call, same
\* collection, same counter; for update as for create.
C16_InvalidBodyIs400 ==
  [][( \/ http'.method = "POST" /\ ~ validateCreateUserDto(http'.body)
       \/ http'.method = "PATCH" /\ ~ validateUpdateUserDto(http'.body) )
     => /\ http'.status = 400
        /\ http'.invoked = 0
        /\ users' = users
        /\ currentId' = currentId]_vars

\* C17: GET, PATCH and DELETE on /user/:id with a segment that is not an
\* integer are a validation failure: answered 400, no UserService call, store
\* unchanged.
C17_NonIntegerIdIs400 ==
  [][( /\ http'.method \in {"GET", "PATCH", "DELETE"}
       /\ http'.seg # ""
       /\ ~ \E i \in IdArgs : ToString(i) = http'.seg )
     => /\ http'.status = 400
        /\ http'.invoked = 0
        /\ http'.call = NoCall
        /\ users' = users
        /\ currentId' = currentId]_vars

\* C17 witness: PATCH /user/abc with a valid body answered 400 on a
\* non-empty store.
C17_Witness ==
  /\ http.method = "PATCH"
  /\ http.seg = "abc"
  /\ http.body = Prop("name", "Jane")
  /\ http.status = 400
  /\ Len(users) >= 1
\* The User object { id, name, email }.
User(id, name, email) ==
  Spread(Spread(Prop("id", id), Prop("name", name)), Prop("email", email))

\* C18: on a fresh store the run create(a), create(b), findAll, findOne(1),
\* update(1, {name: n}), remove(2), findOne(2) yields in order: a's record
\* with id 1, b's record with id 2, the list of both in that order, the first
\* record, the first record renamed n, success, and NotFound (with a = John
\* Doe, john@example.com, b = Jane, jane@example.com and n = Jonathan).
C18_EndToEnd ==
  LET first == User(1, scn.a.name, scn.a.email)
      second == User(2, scn.b.name, scn.b.email)
  IN  /\ scn.pc = 1 => last.outcome = "ok" /\ last.ret = first
      /\ scn.pc = 2 => last.outcome = "ok" /\ last.ret = second
      /\ scn.pc = 3 => last.outcome = "ok" /\ last.list = <<first, second>>
      /\ scn.pc = 4 => last.outcome = "ok" /\ last.ret = first
      /\ scn.pc = 5 => /\ last.outcome = "ok"
                       /\ last.ret = User(1, scn.n, scn.a.email)
      /\ scn.pc = 6 => last.op = "remove" /\ last.outcome = "ok"
      /\ scn.pc = 7 => /\ last.op = "findOne" /\ last.outcome = "NotFound"
                       /\ users = <<User(1, scn.n, scn.a.email)>>

\* C18 witness: the end of the run with the inputs of the example.
C18_Witness ==
  /\ scn.pc = 7
  /\ scn.a = Spread(Prop("name", "John Doe"), Prop("email", "john@example.com"))
  /\ scn.b = Spread(Prop("name", "Jane"), Prop("email", "jane@example.com"))
  /\ scn.n = "Jonathan"
  /\ last.outcome = "NotFound"
  /\ users = <<User(1, "Jonathan", "john@example.com")>>
\* C13 (as stated): writing to a value returned by create, findOne, update or
\* findAll (a field of a returned record, or the returned list) does not
\* change what later findOne/findAll calls return.
C13_ReturnsAreCopies ==
  [][held'.by \in {"write", "pop"} =>
       /\ findAll(users', currentId').list = findAll(users, currentId).list
       /\ \A id \in IdArgs :
            findOne(users', currentId', id) = findOne(users, currentId, id)]_vars

\* C13 (amended): the returned values are live references.  A write to the
\* record that create, findOne or update has just returned shows in the
\* record findAll lists afterwards, and pop() on the list findAll has just
\* returned shortens what findAll returns afterwards.
C13_ReturnsAreAliases ==
  [][/\ (held.by \in {"create", "findOne", "update"} /\ held'.by = "write") =>
          /\ \E k \in 1..Len(users') :
               findAll(users', currentId').list[k] = held'.obj
          /\ held.by = "findOne" =>
               findOne(users', currentId', held.obj.id).ret = held'.obj
     /\ (held.by = "findAll" /\ held'.by = "pop") =>
          Len(findAll(users', currentId').list) = Len(users) - 1]_vars

\* C13 witness: the caller renamed the record create returned, and the store
\* holds the new name.
C13_Witness ==
  /\ held.by = "write"
  /\ held.at = 2
  /\ Len(users) = 2
  /\ users[2] = held.obj
  /\ users[1].name = "John" /\ users[1].email = "john@example.com"
  /\ held.obj.name = "Jane" /\ held.obj.email = "john@example.com"
\* C21: a successful remove(id) removes exactly the record with that id: the
\* collection shrinks by one, no record with that id is in findAll's result
\* afterwards, and remove returns no value.
C21_RemoveEffect ==
  [][(last'.op = "remove" /\ last'.outcome = "ok") =>
       /\ Len(users') = Len(users) - 1
       /\ ~ \E k \in 1..Len(users') :
              findAll(users', currentId').list[k].id = last'.id
       /\ last'.ret = EmptyObj /\ last'.list = <<>>]_vars

\* C24: a findOne, update or remove call that fails with NotFound leaves the
\* store as it was: same records, same fields, same order, same id counter.
C24_FailureLeavesStore ==
  [][(last'.op \in {"findOne", "update", "remove"}
        /\ last'.outcome = "NotFound") =>
       users' = users /\ currentId' = currentId]_vars

\* C24 witness: a remove has failed on a store with two records.
C24_Witness ==
  /\ last.op = "remove"
  /\ last.outcome = "NotFound"
  /\ Len(users) = 2
  /\ nRemoved = 0

C26_CounterBoundsIds ==
  /\ currentId = 1 + Len(created)
  /\ \A k \in 1..Len(users) : users[k].id \in 1..(currentId - 1)

\* C27: the ids of the records are strictly increasing in collection order,
\* so the search by id matches at most one record.
C27_IdsStrictlyIncreasing ==
  \A j, k \in 1..Len(users) : j < k => users[j].id < users[k].id

\* C28: update is idempotent and has a neutral element: a second
\* update(id, p) right after a successful one leaves the same store and
\* returns the same record, and update(id, {}) returns the record unchanged
\* and leaves the store unchanged.
C28_UpdateIdempotent ==
  /\ (last.op = "update" /\ last.outcome = "ok") =>
       LET r == update(users, currentId, last.id, last.dto)
       IN  /\ r.outcome = "ok"
           /\ r.ret = last.ret
           /\ r.users = users /\ r.currentId = currentId
  /\ \A id \in IdArgs :
       LET r == update(users, currentId, id, EmptyObj)
       IN  /\ r.users = users /\ r.currentId = currentId
           /\ r.outcome = "ok" => r.ret = findOne(users, currentId, id).ret
\* The request passes the pipes in front of its handler.
PassesPipes(req) ==
  /\ req.seg # "" => isNumeric(req.seg)
  /\ req.method = "POST" =>
       ~ bodyRejected(validationPipe, validateCreateUserDto(req.body))
  /\ req.method = "PATCH" =>
       ~ bodyRejected(validationPipe, validateUpdateUserDto(req.body))

\* The UserService call a handler stands for, applied to the store (us, cid).
ServiceCall(req, us, cid) ==
  CASE req.method = "POST" -> create(us, cid, req.body)
    [] req.method = "GET" /\ req.seg = "" -> findAll(us, cid)
    [] req.method = "GET" /\ req.seg # "" -> findOne(us, cid, ParseIntPipe(req.seg))
    [] req.method = "PATCH" -> update(us, cid, ParseIntPipe(req.seg), req.body)
    [] req.method = "DELETE" -> remove(us, cid, ParseIntPipe(req.seg))

\* The name of that call.
ServiceOp(req) ==
  CASE req.method = "POST" -> "create"
    [] req.method = "GET" /\ req.seg = "" -> "findAll"
    [] req.method = "GET" /\ req.seg # "" -> "findOne"
    [] req.method = "PATCH" -> "update"
    [] req.method = "DELETE" -> "remove"

\* C23: each handler is a pass-through: a request that passes validation
\* invokes the corresponding UserService operation exactly once, with the
\* parsed id and the body, and answers with that operation's result as it
\* is; a NotFound failure is not retried or recovered.
C23_PassThrough ==
  [][(http'.method # "none" /\ PassesPipes(http')) =>
       LET r == ServiceCall(http', users, currentId)
       IN  /\ http'.invoked = 1
           /\ http'.call.op = ServiceOp(http')
           /\ http'.call.id = IF http'.seg = "" THEN 0 ELSE ParseIntPipe(http'.seg)
           /\ http'.call.dto = http'.body
           /\ http'.call.outcome = r.outcome
           /\ http'.call.ret = r.ret
           /\ http'.call.list = r.list
           /\ users' = r.users
           /\ currentId' = r.currentId]_vars

\* C23 witness: DELETE on an absent id, answered 404 after one call, with a
\* record in the store.
C23_Witness ==
  /\ http.method = "DELETE"
  /\ http.status = 404
  /\ http.invoked = 1
  /\ http.call.op = "remove"
  /\ Len(users) >= 1

\* C29: through the HTTP surface the id of a record cannot be changed: a
\* PATCH /user/:id body with an id property (or any property other than name
\* and email) is answered 400 before UserService.update is called, and the
\* stored ids stay as they are.
C29_PatchCannotChangeId ==
  [][(http'.method = "PATCH"
        /\ ~ (DOMAIN http'.body \subseteq {"name", "email"})) =>
       /\ http'.status = 400
       /\ http'.invoked = 0
       /\ Ids(users') = Ids(users)]_vars
\* C30: update treats an unset field like an absent one: when name or email
\* is present in partialFields with the value undefined, update keeps the
\* stored value of that field, in the store and in the returned record.
C30_UnsetFieldKept ==
  [][(last'.op = "update" /\ last'.outcome = "ok") =>
       LET i == findIndex(users, last'.id)
       IN  \A f \in DOMAIN last'.dto :
             last'.dto[f] = undefined =>
               /\ users'[i][f] = users[i][f]
               /\ last'.ret[f] = users[i][f]]_vars
\* The call of request q applied to the store (us, cid) in one piece.
SerialCall(q, us, cid) ==
  CASE q.op = "create" -> create(us, cid, q.dto)
    [] q.op = "update" -> update(us, cid, q.id, q.dto)
    [] q.op = "remove" -> remove(us, cid, q.id)

\* The store and the responses after the first n requests of order have run
\* one after the other, from the store the requests found.
RECURSIVE SerialRun(_, _)
SerialRun(order, n) ==
  IF n = 0
  THEN [users |-> conc.init.users, currentId |-> conc.init.currentId,
        resp |-> [k \in {} |-> 0]]
  ELSE LET st == SerialRun(order, n - 1)
           k == order[n]
           r == SerialCall(conc.reqs[k], st.users, st.currentId)
       IN  [users |-> r.users, currentId |-> r.currentId,
            resp |-> [j \in DOMAIN st.resp \cup {k} |->
                        IF j = k THEN [outcome |-> r.outcome, ret |-> r.ret]
                        ELSE st.resp[j]]]

AllDone ==
  /\ Len(conc.reqs) > 0
  /\ \A k \in 1..Len(conc.reqs) : conc.reqs[k].pc = "done"

\* C22: every operation is atomic in effect: once the requests in flight
\* have all been answered, the store and the responses are those of some
\* serial order of the operations; two concurrent creates never get the same
\* id, and no update is lost.
C22_Serializable ==
  LET n == Len(conc.reqs)
      done == { k \in 1..n : conc.reqs[k].pc = "done" }
  IN  /\ AllDone =>
           \E order \in Permutations(1..n) :
             LET fin == SerialRun(order, n)
             IN  /\ fin.users = users
                 /\ fin.currentId = currentId
                 /\ \A k \in 1..n :
                      /\ fin.resp[k].outcome = conc.reqs[k].outcome
                      /\ fin.resp[k].ret = conc.reqs[k].ret
      /\ \A j, k \in done :
           (j # k /\ conc.reqs[j].op = "create" /\ conc.reqs[k].op = "create")
             => conc.reqs[j].ret.id # conc.reqs[k].ret.id
      /\ \A k \in done, f \in {"name", "email"} :
           ( /\ conc.reqs[k].op = "update" /\ conc.reqs[k].outcome = "ok"
             /\ f \in DOMAIN conc.reqs[k].dto
             /\ \A j \in 1..n : conc.reqs[j].op = "remove" => j \notin done
             /\ \A j \in done : "id" \notin DOMAIN conc.reqs[j].dto
             /\ \A j \in done : (j # k /\ conc.reqs[j].op = "update")
                                  => f \notin DOMAIN conc.reqs[j].dto )
           => users[findIndex(users, conc.reqs[k].id)][f] = conc.reqs[k].dto[f]

\* C22 witness: two updates of record 1 on different fields arrived together
\* and both were answered; the record has both new values.
C22_Witness ==
  /\ AllDone
  /\ Len(conc.reqs) >= 2
  /\ conc.reqs[1].op = "update" /\ conc.reqs[1].outcome = "ok"
  /\ conc.reqs[2].op = "update" /\ conc.reqs[2].outcome = "ok"
  /\ DOMAIN conc.reqs[1].dto # DOMAIN conc.reqs[2].dto
  /\ users[1].name = "Jane" /\ users[1].email = "jane@example.com"
====
